---- MODULE Spec2Model ----
(***************************************************************************)
(* AI Speech Analyzer: the upload -> transcribe -> extract -> answer       *)
(* pipeline of app.py, the progress shim of utils/transcribe.py, the       *)
(* answer wrapper of qa_system.py and the phone/email patterns of          *)
(* utils/extract_info.py.                                                  *)
(*                                                                         *)
(* Progress values are in tenths (0.1 is 1, 1.0 is 10).  The pretrained    *)
(* models (whisper, spaCy, haystack) are black boxes: each call into one   *)
(* returns or raises an Exception, chosen nondeterministically             *)
(* (interrupts outside Exception are not modelled).  The filesystem calls  *)
(* of the upload path and of the cleanup succeed under Spec and may raise  *)
(* under SpecIOFault.                                                      *)
(***************************************************************************)
EXTENDS Integers, Sequences, FiniteSets, TLC

VARIABLES
    \* ---- app.py main(), one browser session's script run
    pc,                 \* position of main
    req,                \* number of requests (script runs with a file) so far
    buf,                \* len(uploaded_file.getbuffer()) of this request
    audio_path,         \* main's audio_path: 0 is None, else the request's temp path
    dirs,               \* temp directories on disk (one id per request)
    files,              \* temp files on disk: records [id, size]
    text,               \* main's text
    edited_text,        \* main's edited_text
    exc,                \* the exception propagating out of main's try block
    extractArg,         \* the text InfoExtractor.extract was called with
    qaArg,              \* the text QASystem.answer was called with
    cleanupRan,         \* the finally block of main has run in this request
    warned,             \* the cleanup logged a warning
    ioFaults,           \* the filesystem calls the environment lets fail
    \* ---- the shared AudioTranscriber and each session's transcribe_audio
    progress_callback,  \* AudioTranscriber.progress_callback
    setOrder,           \* history: the sessions that called set_progress_callback
    tapc,               \* per session: position of transcribe_audio
    tpc,                \* per session: position of AudioTranscriber.transcribe
    log,                \* per session: the callback invocations its call made
    bar,                \* per session: the value its st.progress bar shows
    result,             \* per session: result["text"] of model.transcribe
    tret,               \* per session: return value of transcribe
    texc,               \* per session: exception transcribe raises
    taret,              \* per session: return value of transcribe_audio
    shown,              \* per session: the st.error messages displayed
    \* ---- qa_system.py QASystem.answer, one call
    qpc,                \* position of answer
    qText,              \* its text argument
    qQuestion,          \* its question argument
    qAnswers,           \* result["answers"] of pipeline.run: the candidates' texts
    qRet,               \* its return value
    qLogged,            \* the except handler logged "QA failed"
    \* ---- utils/extract_info.py InfoExtractor.extract, one call
    xpc,                \* position of extract
    xText,              \* its text argument, a sequence of characters
    xInfo               \* the ExtractedInfo it returns

mainVars == <<pc, req, buf, audio_path, dirs, files, text, edited_text, exc,
              extractArg, qaArg, cleanupRan, warned, ioFaults>>
trVars == <<progress_callback, setOrder, tapc, tpc, log, bar, result, tret,
            texc, taret, shown>>
qaVars == <<qpc, qText, qQuestion, qAnswers, qRet, qLogged>>
xVars == <<xpc, xText, xInfo>>
pureVars == <<qaVars, xVars>>
vars == <<mainVars, trVars, pureVars>>

\* ---- bounds
MaxRequests == 2
MaxBuf == 2

Sessions == {"A", "B"}
MainSession == "A"
None == "<None>"
Texts == {"", "call 555"}
Edits == {"call 556"}
Outcomes == {"ok", "FileNotFoundError", "Exception"}
Faults == {"mkdtemp", "open", "write", "unlink", "rmdir"}

Min(a, b) == IF a < b THEN a ELSE b
Max(a, b) == IF a > b THEN a ELSE b

(***************************************************************************)
(* utils/transcribe.py                                                     *)
(***************************************************************************)

\* min(1.0, max(0.0, progress)), in tenths
Clamp(progress) == Min(10, Max(0, progress))

\* a per-call callback instead of the shared field
update_progress_own(s, progress, site) ==
    /\ log' = [log EXCEPT ![s] = Append(@, [v |-> Clamp(progress), site |-> site, to |-> s])]
    /\ bar' = [bar EXCEPT ![s] = Clamp(progress)]

\* _update_progress: reads the shared field and calls what it holds; the
\* callback of load_models ("noop") does nothing, a session's callback sets
\* that session's progress bar.  An exception of the callback is swallowed.
update_progress(s, progress, site) ==
    IF progress_callback # None
    THEN /\ log' = [log EXCEPT ![s] = Append(@, [v |-> Clamp(progress),
                                                   site |-> site,
                                                   to |-> progress_callback])]
         /\ bar' = IF progress_callback \in Sessions
                   THEN [bar EXCEPT ![progress_callback] = Clamp(progress)]
                   ELSE bar
    ELSE UNCHANGED <<log, bar>>

\* where a black-box call leaves the try block
After(o, next) ==
    IF o = "ok" THEN next
    ELSE IF o = "FileNotFoundError" THEN "exceptFNF" ELSE "exceptOther"

\* self._update_progress(0.1)
TInit(s) ==
    /\ tpc[s] = "init"
    /\ update_progress(s, 1, "try")
    /\ tpc' = [tpc EXCEPT ![s] = "load"]
    /\ UNCHANGED <<pureVars, mainVars, progress_callback, setOrder, tapc, result, tret, texc, taret, shown>>

\* self._update_progress(0.2); whisper.load_audio; whisper.pad_or_trim
TLoad(s) ==
    /\ tpc[s] = "load"
    /\ update_progress(s, 2, "try")
    /\ \E o \in Outcomes : tpc' = [tpc EXCEPT ![s] = After(o, "mel")]
    /\ UNCHANGED <<pureVars, mainVars, progress_callback, setOrder, tapc, result, tret, texc, taret, shown>>

\* self._update_progress(0.3); whisper.log_mel_spectrogram(audio).to(device)
TMel(s) ==
    /\ tpc[s] = "mel"
    /\ update_progress(s, 3, "try")
    /\ \E o \in Outcomes : tpc' = [tpc EXCEPT ![s] = After(o, "detect")]
    /\ UNCHANGED <<pureVars, mainVars, progress_callback, setOrder, tapc, result, tret, texc, taret, shown>>

\* self._update_progress(0.4); language is None: self.model.detect_language
TDetect(s) ==
    /\ tpc[s] = "detect"
    /\ update_progress(s, 4, "try")
    /\ \E o \in Outcomes : tpc' = [tpc EXCEPT ![s] = After(o, "decode")]
    /\ UNCHANGED <<pureVars, mainVars, progress_callback, setOrder, tapc, result, tret, texc, taret, shown>>

\* self._update_progress(0.5); DecodingOptions; tqdm; self.model.transcribe
TDecode(s) ==
    /\ tpc[s] = "decode"
    /\ update_progress(s, 5, "try")
    /\ \E o \in Outcomes :
          /\ tpc' = [tpc EXCEPT ![s] = After(o, "return")]
          /\ IF o = "ok"
             THEN \E t \in Texts : result' = [result EXCEPT ![s] = t]
             ELSE UNCHANGED result
    /\ UNCHANGED <<pureVars, mainVars, progress_callback, setOrder, tapc, tret, texc, taret, shown>>

\* self._update_progress(0.9); return result["text"]
TReturn(s) ==
    /\ tpc[s] = "return"
    /\ update_progress(s, 9, "try")
    /\ tret' = [tret EXCEPT ![s] = result[s]]
    /\ tpc' = [tpc EXCEPT ![s] = "finally"]
    /\ UNCHANGED <<pureVars, mainVars, progress_callback, setOrder, tapc, result, texc, taret, shown>>

\* except FileNotFoundError: self._update_progress(1.0); return None
TExceptNotFound(s) ==
    /\ tpc[s] = "exceptFNF"
    /\ update_progress(s, 10, "except")
    /\ tret' = [tret EXCEPT ![s] = None]
    /\ tpc' = [tpc EXCEPT ![s] = "finally"]
    /\ UNCHANGED <<pureVars, mainVars, progress_callback, setOrder, tapc, result, texc, taret, shown>>

\* the handler re-raises without reporting progress
TExceptOtherSilent(s) ==
    /\ tpc[s] = "exceptOther"
    /\ texc' = [texc EXCEPT ![s] = "Exception"]
    /\ tpc' = [tpc EXCEPT ![s] = "finally"]
    /\ UNCHANGED <<pureVars, mainVars, progress_callback, setOrder, tapc, log, bar, result, tret, taret, shown>>

\* except Exception: self._update_progress(1.0); raise
TExceptOther(s) ==
    /\ tpc[s] = "exceptOther"
    /\ update_progress(s, 10, "except")
    /\ texc' = [texc EXCEPT ![s] = "Exception"]
    /\ tpc' = [tpc EXCEPT ![s] = "finally"]
    /\ UNCHANGED <<pureVars, mainVars, progress_callback, setOrder, tapc, result, tret, taret, shown>>

\* no finalization block: the call ends without the terminal report
TFinallySilent(s) ==
    /\ tpc[s] = "finally"
    /\ tpc' = [tpc EXCEPT ![s] = "done"]
    /\ UNCHANGED <<pureVars, mainVars, progress_callback, setOrder, tapc, log, bar, result, tret, texc, taret, shown>>

\* finally: self._update_progress(1.0)
TFinally(s) ==
    /\ tpc[s] = "finally"
    /\ update_progress(s, 10, "finally")
    /\ tpc' = [tpc EXCEPT ![s] = "done"]
    /\ UNCHANGED <<pureVars, mainVars, progress_callback, setOrder, tapc, result, tret, texc, taret, shown>>

Transcribe(s) ==
    \/ TInit(s) \/ TLoad(s) \/ TMel(s) \/ TDetect(s) \/ TDecode(s)
    \/ TReturn(s) \/ TExceptNotFound(s) \/ TExceptOther(s) \/ TFinally(s)

(***************************************************************************)
(* app.py transcribe_audio                                                 *)
(***************************************************************************)

\* progress_bar = st.progress(0); set_progress_callback(progress_callback);
\* the call of transcribe(audio_path) begins
TranscribeAudioStart(s) ==
    /\ tapc[s] = "start"
    /\ bar' = [bar EXCEPT ![s] = 0]
    /\ progress_callback' = s
    /\ setOrder' = Append(setOrder, s)
    /\ log' = [log EXCEPT ![s] = <<>>]
    /\ result' = [result EXCEPT ![s] = None]
    /\ tret' = [tret EXCEPT ![s] = None]
    /\ texc' = [texc EXCEPT ![s] = "none"]
    /\ tpc' = [tpc EXCEPT ![s] = "init"]
    /\ tapc' = [tapc EXCEPT ![s] = "in_transcribe"]
    /\ UNCHANGED <<pureVars, mainVars, taret, shown>>

\* transcribe returned: progress_bar.progress(1.0); return result
\* transcribe raised: progress_bar.progress(1.0); st.error(...); return None
TranscribeAudioEnd(s) ==
    /\ tapc[s] = "in_transcribe"
    /\ tpc[s] = "done"
    /\ bar' = [bar EXCEPT ![s] = 10]
    /\ IF texc[s] = "none"
       THEN /\ taret' = [taret EXCEPT ![s] = tret[s]]
            /\ UNCHANGED shown
       ELSE /\ taret' = [taret EXCEPT ![s] = None]
            /\ shown' = [shown EXCEPT ![s] = @ \cup {"Transcription Error"}]
    /\ tapc' = [tapc EXCEPT ![s] = "returned"]
    /\ UNCHANGED <<pureVars, mainVars, progress_callback, setOrder, tpc, log, result, tret, texc>>

TranscribeAudio(s) == TranscribeAudioStart(s) \/ TranscribeAudioEnd(s)

(***************************************************************************)
(* app.py save_uploaded_file and main                                      *)
(***************************************************************************)

\* extract_information is called at app.py:210 and defined nowhere: neither
\* app.py nor any module it imports binds the name, so the call raises
\* NameError.
ExtractInformationDefined == FALSE

Questions == {"", "what number?", "who called?"}

\* the validation never rejects
RejectsNothing(size) == FALSE

\* if os.path.getsize(audio_path) == 0: raise ValueError
Rejects(size) == size = 0

\* a return that leaves main without running the finally block
EarlyReturnSkipsFinally == "done"

\* "return" inside main's try block: control passes to the finally block
EarlyReturn == "cleanup"

\* audio_file is truthy: a script run with an uploaded file begins
MainUpload ==
    /\ pc \in {"idle", "done"}
    /\ req < MaxRequests
    /\ req' = req + 1
    /\ \E b \in 0..MaxBuf : buf' = b
    /\ pc' = "save"
    /\ audio_path' = 0
    /\ text' = None
    /\ edited_text' = None
    /\ exc' = "none"
    /\ extractArg' = None
    /\ qaArg' = None
    /\ cleanupRan' = FALSE
    /\ warned' = FALSE
    /\ tapc' = [tapc EXCEPT ![MainSession] = "idle"]
    /\ taret' = [taret EXCEPT ![MainSession] = None]
    /\ shown' = [shown EXCEPT ![MainSession] = {}]
    /\ UNCHANGED <<dirs, files, ioFaults, pureVars, progress_callback, setOrder, tpc, log,
                   bar, result, tret, texc>>

\* audio_path = save_uploaded_file(audio_file); if not audio_path: return
\* f is the filesystem call that raises, if any.
SaveUploadedFile ==
    /\ pc = "save"
    /\ \E f \in {"none"} \cup (ioFaults \cap {"mkdtemp", "open", "write"}) :
        LET written == IF f = "write" THEN 0 ELSE buf
            failed == f # "none" \/ Rejects(written)
        IN /\ dirs' = IF f = "mkdtemp" THEN dirs ELSE dirs \cup {req}
           /\ files' = IF f \in {"mkdtemp", "open"} THEN files
                       ELSE files \cup {[id |-> req, size |-> written]}
           /\ audio_path' = IF failed THEN 0 ELSE req
           /\ shown' = IF failed
                       THEN [shown EXCEPT ![MainSession] = @ \cup {"File upload failed"}]
                       ELSE shown
           /\ pc' = IF failed THEN "done" ELSE "transcribe"
    /\ UNCHANGED <<req, buf, text, edited_text, exc, extractArg, qaArg, cleanupRan,
                   warned, ioFaults, pureVars, progress_callback, setOrder, tapc, tpc, log,
                   bar, result, tret, texc, taret>>

\* text = transcribe_audio(models, audio_path): the call
MainTranscribe ==
    /\ pc = "transcribe"
    /\ tapc' = [tapc EXCEPT ![MainSession] = "start"]
    /\ pc' = "transcribing"
    /\ UNCHANGED <<req, buf, audio_path, dirs, files, text, edited_text, exc,
                   extractArg, qaArg, cleanupRan, warned, ioFaults, pureVars,
                   progress_callback, setOrder, tpc, log, bar, result, tret, texc,
                   taret, shown>>

\* text = transcribe_audio(...): the return; if not text: return
MainAfterTranscribe ==
    /\ pc = "transcribing"
    /\ tapc[MainSession] = "returned"
    /\ text' = taret[MainSession]
    /\ pc' = IF taret[MainSession] \in {None, ""} THEN EarlyReturn ELSE "display"
    /\ UNCHANGED <<req, buf, audio_path, dirs, files, edited_text, exc, extractArg,
                   qaArg, cleanupRan, warned, ioFaults, pureVars, trVars>>

\* edited_text = display_transcript(text): the text area holds the
\* transcript or what the user typed over it
MainDisplay ==
    /\ pc = "display"
    /\ \E e \in {text} \cup Edits : edited_text' = e
    /\ pc' = "extract"
    /\ UNCHANGED <<req, buf, audio_path, dirs, files, text, exc, extractArg, qaArg,
                   cleanupRan, warned, ioFaults, pureVars, trVars>>

\* info = extract_information(models, edited_text) and, were the name bound,
\* the rest of the try block: the question input, the button,
\* models["qa"].answer(edited_text, question)
MainExtract ==
    /\ pc = "extract"
    /\ IF ExtractInformationDefined
       THEN /\ extractArg' = edited_text
            /\ \E q \in Questions, clicked \in BOOLEAN :
                  qaArg' = IF q # "" /\ clicked THEN edited_text ELSE None
            /\ UNCHANGED exc
       ELSE /\ exc' = "NameError"
            /\ UNCHANGED <<extractArg, qaArg>>
    /\ pc' = "cleanup"
    /\ UNCHANGED <<req, buf, audio_path, dirs, files, text, edited_text,
                   cleanupRan, warned, ioFaults, pureVars, trVars>>

\* finally: if audio_path and os.path.exists(audio_path): os.unlink(audio_path);
\* if os.path.exists(temp_dir): os.rmdir(temp_dir); except: logger.warning.
\* The exception of the try block, if any, propagates after it.
MainCleanup ==
    /\ pc = "cleanup"
    /\ \E f \in {"none"} \cup (ioFaults \cap {"unlink", "rmdir"}) :
        IF audio_path # 0 /\ \E fl \in files : fl.id = audio_path
        THEN IF f = "unlink"
             THEN /\ warned' = TRUE
                  /\ UNCHANGED <<files, dirs>>
             ELSE /\ files' = {fl \in files : fl.id # audio_path}
                  /\ IF audio_path \in dirs
                     THEN IF f = "rmdir"
                          THEN warned' = TRUE /\ UNCHANGED dirs
                          ELSE dirs' = dirs \ {audio_path} /\ UNCHANGED warned
                     ELSE UNCHANGED <<dirs, warned>>
        ELSE UNCHANGED <<files, dirs, warned>>
    /\ cleanupRan' = TRUE
    /\ pc' = "done"
    /\ UNCHANGED <<req, buf, audio_path, text, edited_text, exc, extractArg, qaArg,
                   ioFaults, pureVars, trVars>>

(***************************************************************************)
(* Specifications                                                          *)
(***************************************************************************)

\* load_models: AudioTranscriber("base") with the empty callback set
InitTranscriber ==
    /\ progress_callback = "noop"
    /\ setOrder = <<>>
    /\ tpc = [s \in Sessions |-> "idle"]
    /\ log = [s \in Sessions |-> <<>>]
    /\ bar = [s \in Sessions |-> 0]
    /\ result = [s \in Sessions |-> None]
    /\ tret = [s \in Sessions |-> None]
    /\ texc = [s \in Sessions |-> "none"]
    /\ taret = [s \in Sessions |-> None]
    /\ shown = [s \in Sessions |-> {}]

InitMain ==
    /\ pc = "idle"
    /\ req = 0
    /\ buf = 0
    /\ audio_path = 0
    /\ dirs = {}
    /\ files = {}
    /\ text = None
    /\ edited_text = None
    /\ exc = "none"
    /\ extractArg = None
    /\ qaArg = None
    /\ cleanupRan = FALSE
    /\ warned = FALSE
    /\ tapc = [s \in Sessions |-> "idle"]

\* no call of answer or extract is in progress
InitPure ==
    /\ qpc = "idle"
    /\ qText = None
    /\ qQuestion = None
    /\ qAnswers = <<>>
    /\ qRet = None
    /\ qLogged = FALSE
    /\ xpc = "idle"
    /\ xText = <<>>
    /\ xInfo = None

\* the filesystem calls succeed
Init == InitMain /\ InitTranscriber /\ InitPure /\ ioFaults = {}

\* any filesystem call of the upload path and of the cleanup may raise
InitIOFault == InitMain /\ InitTranscriber /\ InitPure /\ ioFaults = Faults

Next ==
    \/ MainUpload
    \/ SaveUploadedFile
    \/ MainTranscribe
    \/ TranscribeAudio(MainSession)
    \/ Transcribe(MainSession)
    \/ MainAfterTranscribe
    \/ MainDisplay
    \/ MainExtract
    \/ MainCleanup

Spec == Init /\ [][Next]_vars

SpecIOFault == InitIOFault /\ [][Next]_vars

(***************************************************************************)
(* Claims about one session's pipeline (Spec)                              *)
(***************************************************************************)

CallLog == log[MainSession]
CallDone == tpc[MainSession] = "done"
CallSucceeded == texc[MainSession] = "none" /\ tret[MainSession] # None
Ones(l) == {i \in 1..Len(l) : l[i].v = 10}
TempFileExists(id) == \E fl \in files : fl.id = id

\* C1: in every call of transcribe the values delivered to the callback
\* are non-decreasing, each lies in [0.0, 1.0], and once the call has ended
\* (text returned, None returned, or exception re-raised) the last value
\* delivered is 1.0.
C1_ProgressMonotoneEndsAtOne ==
    /\ \A i \in 1..Len(CallLog) : CallLog[i].v \in 0..10
    /\ \A i, j \in 1..Len(CallLog) : i < j => CallLog[i].v <= CallLog[j].v
    /\ CallDone => Len(CallLog) > 0 /\ CallLog[Len(CallLog)].v = 10

\* a call that raised after the mel spectrogram step has ended at 1.0
C1_Witness ==
    /\ CallDone
    /\ texc[MainSession] = "Exception"
    /\ Len(CallLog) = 5
    /\ CallLog[3].v = 3
    /\ CallLog[5].v = 10

\* C2 (as stated): in every call of transcribe the callback is invoked with
\* 1.0 exactly once, from the finalization block.
C2_TerminalExactlyOnce ==
    CallDone => /\ Cardinality(Ones(CallLog)) = 1
                /\ \A i \in Ones(CallLog) : CallLog[i].site = "finally"

\* C2 (amended): in every call of transcribe the last invocation of the
\* callback delivers 1.0 and is the only one made by the finalization
\* block; 1.0 is delivered once when the call returns text and twice (by
\* the except handler, then by the finalization block) when the file is
\* missing or an exception is re-raised.
C2_TerminalFromFinally ==
    CallDone =>
        /\ Len(CallLog) > 0
        /\ CallLog[Len(CallLog)] = [v |-> 10, site |-> "finally", to |-> MainSession]
        /\ \A i \in 1..Len(CallLog) : CallLog[i].site = "finally" => i = Len(CallLog)
        /\ Cardinality(Ones(CallLog)) = IF CallSucceeded THEN 1 ELSE 2
        /\ \A i \in Ones(CallLog) : i < Len(CallLog) => CallLog[i].site = "except"

\* a call that found the file missing has delivered 1.0 twice
C2_Witness ==
    /\ CallDone
    /\ texc[MainSession] = "none"
    /\ tret[MainSession] = None
    /\ Cardinality(Ones(CallLog)) = 2

C4_AllTempDeleted ==
    pc = "done" => req \notin dirs /\ ~TempFileExists(req)

\* C5: in every request whose transcription is non-empty, extract was
\* invoked on the current (original or edited) text before the request
\* ended, and any answer call received that same text.
C5_ExtractsCurrentText ==
    (pc = "done" /\ text \notin {None, ""}) =>
        /\ exc = "none"
        /\ extractArg = edited_text
        /\ qaArg \in {None, edited_text}

\* C6: whenever the Transcriber returned None or raised, an error message
\* was shown, no extraction or question answering ran, and Cleanup ran.
C6_FailureShownAndAborted ==
    (pc = "done" /\ audio_path # 0
        /\ (tret[MainSession] = None \/ texc[MainSession] # "none")) =>
        /\ shown[MainSession] # {}
        /\ extractArg = None
        /\ qaArg = None
        /\ cleanupRan

InitRace ==
    /\ InitTranscriber
    /\ InitPure
    /\ pc = "transcribing"
    /\ req = 1
    /\ buf = 1
    /\ audio_path = 1
    /\ dirs = {1}
    /\ files = {[id |-> 1, size |-> 1]}
    /\ text = None
    /\ edited_text = None
    /\ exc = "none"
    /\ extractArg = None
    /\ qaArg = None
    /\ cleanupRan = FALSE
    /\ warned = FALSE
    /\ ioFaults = {}
    /\ tapc = [s \in Sessions |-> "start"]

NextRace == \E s \in Sessions : TranscribeAudio(s) \/ Transcribe(s)

SpecRace == InitRace /\ [][NextRace]_vars

\* C10: the sessions share the progress_callback field, so every value a
\* call emits goes to the callback of the session that called
\* set_progress_callback last, whichever session's call emits it.
C10_DeliveredToLastSetCallback ==
    [][\A s \in Sessions :
          Len(log'[s]) > Len(log[s]) =>
              /\ setOrder # <<>>
              /\ log'[s][Len(log'[s])].to = setOrder[Len(setOrder)]]_vars

\* the interleaving of the claim: A set its callback, then B set its own,
\* then A's transcription ran to its end; all of A's progress values went
\* to B's callback and A's bar never moved
C10_Witness ==
    /\ setOrder = <<"A", "B">>
    /\ tpc["A"] = "done"
    /\ tapc["A"] = "in_transcribe"
    /\ tpc["B"] = "init"
    /\ Len(log["A"]) = 7
    /\ \A i \in 1..Len(log["A"]) : log["A"][i].to = "B"
    /\ bar["A"] = 0
    /\ bar["B"] = 10

(***************************************************************************)
(* qa_system.py QASystem.answer (SpecQA)                                   *)
(***************************************************************************)

\* ---- bound: the most candidates the reader returns
MaxAnswers == 2

\* an answer span; the reader's "no answer" candidate has the empty text
AnswerTexts == {"", "555"}
RECURSIVE SeqsUpTo(_, _)
SeqsUpTo(S, n) ==
    IF n = 0 THEN {<<>>}
    ELSE LET shorter == SeqsUpTo(S, n - 1)
         IN shorter \cup {Append(q, x) : q \in {r \in shorter : Len(r) = n - 1}, x \in S}
AnswerLists == SeqsUpTo(AnswerTexts, MaxAnswers)
QAOutcomes == {"ok", "Exception"}

\* doc = Document(content=text)
QADocument ==
    /\ qpc = "document"
    /\ \E o \in QAOutcomes : qpc' = IF o = "ok" THEN "run" ELSE "except"
    /\ UNCHANGED <<qText, qQuestion, qAnswers, qRet, qLogged, xVars, mainVars, trVars>>

\* result = self.pipeline.run(query=question, documents=[doc])
QARun ==
    /\ qpc = "run"
    /\ \E o \in QAOutcomes :
          IF o = "ok"
          THEN /\ \E a \in AnswerLists : qAnswers' = a
               /\ qpc' = "pick"
          ELSE /\ qpc' = "except"
               /\ UNCHANGED qAnswers
    /\ UNCHANGED <<qText, qQuestion, qRet, qLogged, xVars, mainVars, trVars>>

\* the last candidate instead of the first
PickLast(answers) == IF Len(answers) > 0 THEN answers[Len(answers)] ELSE None

\* result["answers"][0].answer if result["answers"] else None
Pick(answers) == IF Len(answers) > 0 THEN answers[1] ELSE None

\* return result["answers"][0].answer if result["answers"] else None
QAReturn ==
    /\ qpc = "pick"
    /\ qRet' = Pick(qAnswers)
    /\ qpc' = "returned"
    /\ UNCHANGED <<qText, qQuestion, qAnswers, qLogged, xVars, mainVars, trVars>>

\* except Exception as e: logger.error(...); return None
QAExcept ==
    /\ qpc = "except"
    /\ qLogged' = TRUE
    /\ qRet' = None
    /\ qpc' = "returned"
    /\ UNCHANGED <<qText, qQuestion, qAnswers, xVars, mainVars, trVars>>

\* a call answer(text, question)
InitQA ==
    /\ InitMain /\ InitTranscriber /\ ioFaults = {}
    /\ xpc = "idle" /\ xText = <<>> /\ xInfo = None
    /\ qpc = "document"
    /\ qText \in Texts \cup Edits
    /\ qQuestion \in Questions
    /\ qAnswers = <<>>
    /\ qRet = None
    /\ qLogged = FALSE

NextQA == QADocument \/ QARun \/ QAReturn \/ QAExcept

SpecQA == InitQA /\ [][NextQA]_vars

\* C8: answer never raises to its caller: it returns the text of the
\* first candidate when the pipeline yields at least one, and None when
\* the pipeline yields none or a stage of it raised.
C8_AnswerFirstOrNone ==
    /\ qpc \in {"document", "run", "pick", "except", "returned"}
    /\ qpc = "returned" =>
          qRet = IF qLogged \/ Len(qAnswers) = 0 THEN None ELSE qAnswers[1]

\* two candidates with different texts came back and the first was returned
C8_Witness ==
    /\ qpc = "returned"
    /\ ~qLogged
    /\ qAnswers = <<"555", "">>
    /\ qRet = "555"

(***************************************************************************)
(* utils/extract_info.py InfoExtractor.extract (SpecExtract)               *)
(*                                                                         *)
(* A text is a sequence of one-character strings.  A pattern is a          *)
(* sequence of items [cls, min, max]: between min and max (max = -1: any   *)
(* number of) characters of class cls, matched greedily with backtracking  *)
(* as Python's re does.                                                    *)
(***************************************************************************)

\* ---- bounds: the longest text before and after the run of digits
MaxPre == 2
MaxPost == 1

Digits == {"0", "1", "2", "3", "4", "5", "6", "7", "8", "9"}
Lower ==
    {"a", "b", "c", "d", "e", "f", "g", "h", "i", "j", "k", "l", "m", "n",
      "o", "p", "q", "r", "s", "t", "u", "v", "w", "x", "y", "z"}
Upper ==
    {"A", "B", "C", "D", "E", "F", "G", "H", "I", "J", "K", "L", "M", "N",
      "O", "P", "Q", "R", "S", "T", "U", "V", "W", "X", "Y", "Z"}
\* \s
Space == {" ", "\t", "\n"}

InClass(c, cls) ==
    CASE cls = "plus_paren" -> c \in {"+", "("}                       \* [\+\(]
      [] cls = "digit" -> c \in Digits                                \* [0-9]
      [] cls = "phone_body" -> c \in Digits \cup {"-", "(", ")"} \cup Space
                                                                      \* [0-9\-\(\)\s]
      [] cls = "local" -> c \in Lower \cup Upper \cup Digits \cup {".", "_", "%", "+", "-"}
                                                                      \* [a-zA-Z0-9._%+-]
      [] cls = "at" -> c = "@"
      [] cls = "domain" -> c \in Lower \cup Upper \cup Digits \cup {".", "-"}
                                                                      \* [a-zA-Z0-9.-]
      [] cls = "dot" -> c = "."                                       \* \.
      [] cls = "alpha" -> c \in Lower \cup Upper                      \* [a-zA-Z]

\* {8,} in phone_regex
PhoneBodyMin == 8

\* the body repeated {7,}
phone_regex_short ==
    << [cls |-> "plus_paren", min |-> 0, max |-> 1],
       [cls |-> "digit", min |-> 1, max |-> 1],
       [cls |-> "phone_body", min |-> PhoneBodyMin - 1, max |-> -1],
       [cls |-> "digit", min |-> 1, max |-> 1] >>

\* re.compile(r'[\+\(]?[0-9][0-9\-\(\)\s]{8,}[0-9]')
phone_regex ==
    << [cls |-> "plus_paren", min |-> 0, max |-> 1],
       [cls |-> "digit", min |-> 1, max |-> 1],
       [cls |-> "phone_body", min |-> PhoneBodyMin, max |-> -1],
       [cls |-> "digit", min |-> 1, max |-> 1] >>

\* re.compile(r'[a-zA-Z0-9._%+-]+@[a-zA-Z0-9.-]+\.[a-zA-Z]{2,}')
email_regex ==
    << [cls |-> "local", min |-> 1, max |-> -1],
       [cls |-> "at", min |-> 1, max |-> 1],
       [cls |-> "domain", min |-> 1, max |-> -1],
       [cls |-> "dot", min |-> 1, max |-> 1],
       [cls |-> "alpha", min |-> 2, max |-> -1] >>

\* the number of characters of class cls from position i on, at most max
RECURSIVE RunLength(_, _, _, _)
RunLength(t, i, cls, max) ==
    IF max = 0 \/ i > Len(t) \/ ~InClass(t[i], cls) THEN 0
    ELSE 1 + RunLength(t, i + 1, cls, IF max = -1 THEN -1 ELSE max - 1)

\* the regex engine: items k.. of re matched from position i of t; the
\* position of the last character matched, or -1.  An item first takes as
\* many characters as it can and gives them back one at a time.
RECURSIVE MatchFrom(_, _, _, _)
RECURSIVE GiveBack(_, _, _, _, _)
MatchFrom(re, k, t, i) ==
    IF k > Len(re) THEN i - 1
    ELSE GiveBack(re, k, t, i, RunLength(t, i, re[k].cls, re[k].max))
GiveBack(re, k, t, i, n) ==
    IF n < re[k].min THEN -1
    ELSE LET end == MatchFrom(re, k + 1, t, i + n)
         IN IF end # -1 THEN end ELSE GiveBack(re, k, t, i, n - 1)

\* regex.findall(text): the matches from position i on, left to right,
\* each search resuming after the previous match
RECURSIVE FindAll(_, _, _)
FindAll(re, t, i) ==
    IF i > Len(t) THEN <<>>
    ELSE LET end == MatchFrom(re, 1, t, i)
         IN IF end = -1 THEN FindAll(re, t, i + 1)
            ELSE <<SubSeq(t, i, end)>> \o FindAll(re, t, end + 1)

\* doc.ents of self.nlp(text), a black box: (text, label) pairs
EntLists ==
    { <<>>,
      << [text |-> "John", label |-> "PERSON"] >>,
      << [text |-> "Acme", label |-> "ORG"], [text |-> "John", label |-> "PERSON"] >> }

\* [ent.text for ent in doc.ents if ent.label_ == "PERSON"]
RECURSIVE Persons(_)
Persons(ents) ==
    IF ents = <<>> THEN <<>>
    ELSE (IF Head(ents).label = "PERSON" THEN <<Head(ents).text>> ELSE <<>>)
         \o Persons(Tail(ents))

\* InfoExtractor.extract(text)
Extract ==
    /\ xpc = "call"
    /\ \E ents \in EntLists :
          xInfo' = [phones |-> FindAll(phone_regex, xText, 1),
                    emails |-> FindAll(email_regex, xText, 1),
                    names |-> Persons(ents)]
    /\ xpc' = "returned"
    /\ UNCHANGED <<xText, qaVars, mainVars, trVars>>

\* ---- the texts extract is called with
Example ==
    <<"C", "a", "l", "l", " ", "(", "1", "2", "3", ")", " ", "4", "5", "6",
      "-", "7", "8", "9", "0", " ", "o", "r", " ", "e", "m", "a", "i", "l",
      " ", "j", "o", "h", "n", "@", "e", "x", "a", "m", "p", "l", "e", ".",
      "c", "o", "m">>
ExamplePhone ==
    <<"(", "1", "2", "3", ")", " ", "4", "5", "6", "-", "7", "8", "9", "0">>
ExampleEmail ==
    <<"j", "o", "h", "n", "@", "e", "x", "a", "m", "p", "l", "e", ".", "c",
      "o", "m">>
AffixChars == {"1", "-", "(", " ", "+", "a"}
RECURSIVE Repeat(_, _)
Repeat(c, n) == IF n = 0 THEN <<>> ELSE <<c>> \o Repeat(c, n - 1)
\* a run of digits one shorter than, as long as, and longer than the
\* shortest phone, between two short texts
DigitRuns == {Repeat("5", n) : n \in PhoneBodyMin..(PhoneBodyMin + 2)}
PhoneTexts ==
    {pre \o run \o post : pre \in SeqsUpTo(AffixChars, MaxPre),
                          run \in DigitRuns,
                          post \in SeqsUpTo(AffixChars, MaxPost)}
EmailTexts ==
    { <<"a", ".", "b", "@", "c", ".", "d", "e">>,
      <<"x", "@", "y", ".", "z">>,
      <<"m", "e", "@", "a", ".", "b", ".", "o", "r", "g", "!">> }
ExtractTexts == {Example} \cup PhoneTexts \cup EmailTexts

InitExtract ==
    /\ InitMain /\ InitTranscriber /\ ioFaults = {}
    /\ qpc = "idle" /\ qText = None /\ qQuestion = None
    /\ qAnswers = <<>> /\ qRet = None /\ qLogged = FALSE
    /\ xpc = "call"
    /\ xText \in ExtractTexts
    /\ xInfo = None

NextExtract == Extract

SpecExtract == InitExtract /\ [][NextExtract]_vars

\* ---- the phone patterns as sets of words

\* w is an optional '+' or '(' followed by at least 10 characters drawn
\* from digits, hyphens, parentheses and whitespace, the last a digit; with
\* firstDigit, the first of them is a digit too
PhoneWord(w, firstDigit) ==
    \E p \in {0, 1} :
        /\ p = 1 => (Len(w) >= 1 /\ w[1] \in {"+", "("})
        /\ Len(w) - p >= 10
        /\ \A i \in (p + 1)..Len(w) : w[i] \in Digits \cup {"-", "(", ")"} \cup Space
        /\ w[Len(w)] \in Digits
        /\ firstDigit => w[p + 1] \in Digits

\* the non-overlapping substrings of t that are phone words, left to
\* right from position i: the leftmost start that begins one, its longest
\* word, then on after it
RECURSIVE PhoneWords(_, _, _)
PhoneWords(t, i, firstDigit) ==
    IF i > Len(t) THEN <<>>
    ELSE LET ends == {j \in i..Len(t) : PhoneWord(SubSeq(t, i, j), firstDigit)}
         IN IF ends = {} THEN PhoneWords(t, i + 1, firstDigit)
            ELSE LET last == CHOOSE j \in ends : \A e \in ends : e <= j
                 IN <<SubSeq(t, i, last)>> \o PhoneWords(t, last + 1, firstDigit)

InPhones(w) == \E i \in 1..Len(xInfo.phones) : xInfo.phones[i] = w

\* C9 (as stated): the phones are exactly the non-overlapping left-to-right
\* substrings that are an optional '+' or '(' and then at least 10
\* characters from digits, hyphens, parentheses and whitespace ending in a
\* digit; the example text yields "(123) 456-7890".
C9_PhonesMatchStatedPattern ==
    xpc = "returned" =>
        /\ xInfo.phones = PhoneWords(xText, 1, FALSE)
        /\ xText = Example => InPhones(ExamplePhone)

\* C9 (amended): the same with the first character after the optional
\* '+' or '(' a digit: a digit, at least 8 characters from digits,
\* hyphens, parentheses and whitespace, and a closing digit.
C9_PhonesMatchCodePattern ==
    xpc = "returned" =>
        /\ xInfo.phones = PhoneWords(xText, 1, TRUE)
        /\ xText = Example => InPhones(ExamplePhone)

\* extract returned the example's phone and email
C9_Witness ==
    /\ xpc = "returned"
    /\ xText = Example
    /\ xInfo.phones = <<ExamplePhone>>
    /\ xInfo.emails = <<ExampleEmail>>

====
